---- MODULE Spec2Model ----
(***************************************************************************)
(* The turn-taking controller of the voice assistant                       *)
(* (src/src/components/MedicationReminder.tsx, VoiceAssistant component).  *)
(*                                                                         *)
(* The component is a React function component.  Every handler is a        *)
(* closure over the values its render saw.  The setup effect (lines        *)
(* 738-945) re-runs whenever currentLanguage, conversationActive,          *)
(* isProcessing or manuallyControlled changes: its cleanup clears the      *)
(* silence and restart timers, and its body creates a NEW SpeechRecognition*)
(* object whose handlers see the values of that render, and arms a new     *)
(* 2 s auto-start timer.  Earlier recognition objects are neither stopped  *)
(* nor detached: they, and the timers and callbacks created by their       *)
(* handlers, keep acting on the values of their own render.                *)
(*                                                                         *)
(* Text is a sequence of UTF-16 code units, as in JavaScript strings.      *)
(* Time is abstracted: a pending timer may fire at any later moment.       *)
(***************************************************************************)
EXTENDS Integers, Sequences, FiniteSets, TLC

(***************************************************************************)
(* Bounds of the model                                                     *)
(***************************************************************************)
\* recognition objects created over a run (one per run of the setup effect); the
\* last of them is created only in runs that have not used up their results
MaxRec == 5
\* final results the recognition service delivers over a run
MaxHeard == 3
\* clicks of the user over a run
MaxClicks == 1
\* final results and clicks over a run, taken together
MaxInputs == 3
\* final results over a run of SpecClassify
MaxClassified == 2
\* handleConversationInput executions in flight
MaxTasks == 2
\* settle-delay timers pending for the callbacks of one render
MaxSettle == 2
\* medications of the user
MaxMeds == 2
\* reminders spoken over a run
MaxReminders == 3
\* entries of the medication list
MaxList == 3
\* entries of the emergency log
MaxLogs == 2
\* emergency contacts
MaxContacts == 2
\* milliseconds of the clock over a run
MaxTime == 2
\* openings of the visual-verification modal over a run
MaxOpenings == 2
\* senior profiles in the database
MaxUsers == 2
\* runs of fetchUsers over a run
MaxFetches == 3

(***************************************************************************)
(* Text                                                                    *)
(***************************************************************************)
activationPhrases ==
  << <<104, 101, 121, 32, 103, 111, 111, 103, 108, 101>>,  \* hey google
     <<104, 101, 108, 108, 111>>,  \* hello
     <<104, 105, 32, 116, 104, 101, 114, 101>>,  \* hi there
     <<3368, 3374, 3384, 3405, 3349, 3405, 3349, 3390, 3376, 3330>>,  \* (Malayalam)
     <<3385, 3378, 3403>> >>  \* (Malayalam) halo
emergencyKeywordsEn ==
  << <<101, 109, 101, 114, 103, 101, 110, 99, 121>>,  \* emergency
     <<104, 101, 108, 112>>,  \* help
     <<99, 104, 101, 115, 116, 32, 112, 97, 105, 110>>,  \* chest pain
     <<104, 101, 97, 114, 116, 32, 97, 116, 116, 97, 99, 107>>,  \* heart attack
     <<115, 116, 114, 111, 107, 101>>,  \* stroke
     <<102, 97, 108, 108>>,  \* fall
     <<99, 97, 110, 116, 32, 98, 114, 101, 97, 116, 104, 101>>,  \* cant breathe
     <<115, 101, 118, 101, 114, 101, 32, 112, 97, 105, 110>> >>  \* severe pain
emergencyKeywordsMl ==
  << <<3333, 3384, 3393, 3350, 3330>>,
     <<3381, 3399, 3366, 3368>>,
     <<3368, 3398, 3358, 3405, 3354, 3393, 3381, 3399, 3366, 3368>>,
     <<3364, 3378, 3381, 3399, 3366, 3368>>,
     <<3354, 3349, 3405, 3349, 3376, 3330>>,
     <<3384, 3385, 3390, 3375, 3330>>,
     <<3333, 3370, 3349, 3359, 3330>> >>
healthKeywordsEn ==
  << <<109, 101, 100, 105, 99, 97, 116, 105, 111, 110>>,  \* medication
     <<109, 101, 100, 105, 99, 105, 110, 101>>,  \* medicine
     <<110, 111, 116, 32, 102, 101, 101, 108, 105, 110, 103, 32, 119, 101, 108, 108>>,  \* not feeling well
     <<115, 105, 99, 107>>,  \* sick
     <<116, 105, 114, 101, 100>>,  \* tired
     <<100, 105, 122, 122, 121>>,  \* dizzy
     <<110, 97, 117, 115, 101, 111, 117, 115>> >>  \* nauseous
healthKeywordsMl ==
  << <<3374, 3376, 3393, 3368, 3405, 3368, 3405>>,
     <<3334, 3376, 3403, 3351, 3405, 3375, 3330>>,
     <<3372, 3393, 3366, 3405, 3367, 3391, 3374, 3393, 3359, 3405, 3359, 3405>>,
     <<3384, 3393, 3350, 3374, 3391, 3378, 3405, 3378>>,
     <<3349, 3405, 3383, 3392, 3363, 3330>> >>

\* What the recognition service may report as one final result.
Heard ==
  << <<104, 101, 121, 32, 103, 111, 111, 103, 108, 101>>,  \* hey google
     <<32, 104, 105>>,  \* " hi"
     <<73, 32, 104, 97, 118, 101, 32, 99, 104, 101, 115, 116, 32, 112, 97, 105, 110>> >>  \* I have chest pain

\* the sentence the README names for the voice activation of the alerts
NotFeelingWell ==  \* I'm not feeling well
  <<73, 39, 109, 32, 110, 111, 116, 32, 102, 101, 101, 108, 105, 110, 103, 32, 119, 101, 108, 108>>

\* What the recognition service may report when the classification of the
\* conversation's inputs is examined: the above, and transcripts with keywords.
Utterances ==
  Heard \o
  << <<72, 101, 108, 112, 32, 73, 32, 102, 101, 101, 108, 32, 83, 73, 67, 75>>,  \* Help I feel SICK
     NotFeelingWell,
     <<119, 104, 97, 116, 32, 116, 105, 109, 101, 32, 105, 115, 32, 105, 116>>,  \* what time is it
     <<3333, 3384, 3393, 3350, 3330, 32, 3374, 3376, 3393, 3368, 3405, 3368, 3405>> >>  \* (Malayalam) an emergency and a health keyword

IsSpace(c) == c \in {9, 10, 11, 12, 13, 32, 160}

toLowerCase(s) == [i \in 1..Len(s) |-> IF s[i] >= 65 /\ s[i] <= 90 THEN s[i] + 32 ELSE s[i]]

RECURSIVE trimStart(_)
trimStart(s) == IF s # <<>> /\ IsSpace(Head(s)) THEN trimStart(Tail(s)) ELSE s

RECURSIVE trimEnd(_)
trimEnd(s) == IF s # <<>> /\ IsSpace(s[Len(s)]) THEN trimEnd(SubSeq(s, 1, Len(s) - 1)) ELSE s

trim(s) == trimEnd(trimStart(s))

includes(s, p) == \E i \in 0..(Len(s) - Len(p)) : SubSeq(s, i + 1, i + Len(p)) = p

some(list, s) == \E j \in 1..Len(list) : includes(s, list[j])

\* event.results of a session -> finalTranscript: the transcripts of all final
\* results of the session, joined.
RECURSIVE join(_)
join(results) == IF results = <<>> THEN <<>> ELSE Utterances[Head(results)] \o join(Tail(results))

detectLanguage(text) == IF \E i \in 1..Len(text) : text[i] >= 3328 /\ text[i] <= 3455 THEN "ml" ELSE "en"

MinActivationLength == 3

\* the activation test with the containment test turned around and no length guard
ActivatesReversed(finalTranscript) ==
  LET lowerTranscript == trim(toLowerCase(finalTranscript))
  IN  \E j \in 1..Len(activationPhrases) : includes(activationPhrases[j], lowerTranscript)

\* the activation test of recognition.onresult on a final transcript (:787-794)
Activates(finalTranscript) ==
  LET lowerTranscript == trim(toLowerCase(finalTranscript))
  IN  /\ ~(Len(lowerTranscript) < MinActivationLength)
      /\ some(activationPhrases, lowerTranscript)

analyzeUserInput(text, language) ==
  LET emergencyKeywords == IF language = "ml" THEN emergencyKeywordsMl ELSE emergencyKeywordsEn
      healthKeywords    == IF language = "ml" THEN healthKeywordsMl ELSE healthKeywordsEn
  IN  [ isEmergency     |-> some(emergencyKeywords, toLowerCase(text)),
        isHealthConcern |-> some(healthKeywords, toLowerCase(text)) ]

(***************************************************************************)
(* State                                                                   *)
(***************************************************************************)
VARIABLES
  recs,                \* the SpeechRecognition objects created so far; recs[k] also
                       \* holds the values render k saw and the timers its closures own
  isListening,         \* page.tsx:12 (state of the parent, passed down)
  conversationActive,  \* :731
  isProcessing,        \* :732
  manuallyControlled,  \* :733
  currentLanguage,     \* :730
  genAI,               \* :729  TRUE when an API key is configured
  silenceTimer,        \* TRUE while the timeout held by silenceTimerRef is pending
  silenceOrphans,      \* pending silence timeouts that silenceTimerRef no longer holds
  restartTimeout,      \* 0, or k while the timeout held by restartTimeoutRef, armed by
                       \* the onend handler of recs[k], is pending
  utterance,           \* what speechSynthesis is speaking
  tasks,               \* the executions of handleConversationInput in flight
  heard,               \* final results delivered so far
  clicks,              \* clicks made so far
  userStopped,         \* history: the last use of the Start / Stop button was a stop
  reminder,            \* the MedicationReminder component (:19-689)
  page                 \* the other components of the page (page.tsx:85)

vars == << recs, isListening, conversationActive, isProcessing, manuallyControlled,
           currentLanguage, genAI, silenceTimer, silenceOrphans, restartTimeout,
           utterance, tasks, heard, clicks, userStopped, reminder, page >>

\* the `recognition` state of the current render: the object the last effect run set
recognition == Len(recs)

\* the `recognition` state that render k saw: the object of the effect run before
\* it (null, written 0, for the first render)
recognitionOfRender(k) == k - 1

\* The guards of the timer callbacks read only what their render saw, so whether
\* a timer can act when it fires is known when it is armed.  A timer that cannot
\* act is not tracked: its firing changes nothing.
AutoStartCanAct(c) == ~c.manuallyControlled /\ ~c.isListening                 \* :925
RestartCanAct(c)   == /\ ~c.isListening /\ ~c.manuallyControlled
                      /\ ~c.isProcessing /\ ~c.conversationActive            \* :906
SettleCanAct(k, c) == c.conversationActive /\ recognitionOfRender(k) # 0      \* :1055

\* The object created by a run of the setup effect in a render that saw these
\* values, with that run's 2 s auto-start timer (:924-934).
NewRecognition(cA, iP, mC, iL) ==
  LET c == [ st |-> "idle", results |-> <<>>,
             conversationActive |-> cA, isProcessing |-> iP, manuallyControlled |-> mC,
             isListening |-> iL, autoStart |-> FALSE, settle |-> 0 ]
  IN  [c EXCEPT !.autoStart = AutoStartCanAct(c)]

NoUtterance == [ kind |-> "none", onFinished |-> 0 ]

(***************************************************************************)
(* The medication reminder (MedicationReminder component, :19-689, with    *)
(* the useMedications hook, src/unnamed/part_000).  Its mount effect       *)
(* (:72-164, dependency list []) runs once: the recognition handlers and   *)
(* the 5 s interval callback it installs are closures of the first render. *)
(***************************************************************************)
\* the time of day: the minute before the reminders are due, the minute they are
\* due, the minute after
Clock == << "07:59", "08:00", "08:01" >>

\* convertMedication (part_000:21-31): every medication is due at 08:00
DefaultTime == "08:00"

\* convertMedication (part_000:21-31) of the database row with this id
convertMedication(id) == [ id |-> id, taken |-> FALSE, reminderCount |-> 0 ]

\* what the first render saw: useState([]) (part_000:17), isListening false (:33),
\* recognition null (:34)
MountRender == [ medications |-> <<>>, isListening |-> FALSE, recognition |-> FALSE ]

\* the component after its mount: nothing fetched yet, the interval running
ReminderMount ==
  [ medications    |-> <<>>,      \* the hook's state (part_000:17)
    loaded         |-> FALSE,     \* fetchMedications has settled
    loading        |-> TRUE,      \* the hook's loading state (part_000:18)
    isListening    |-> FALSE,     \* :33
    session        |-> "idle",    \* the recognition object of the mount effect
    restart        |-> FALSE,     \* a 1 s restart timer of its handlers is pending
    minute         |-> 1,         \* index into Clock
    reminders      |-> 0,         \* reminders spoken (speakReminder)
    familyNotified |-> FALSE ]    \* notifyFamily has run (:375-385)

\* recognition.start() of the reminder's object; an object that is not idle throws
reminderStart(r) ==
  IF r.session = "idle" THEN [r EXCEPT !.session = "starting"] ELSE r

\* recognition.stop() followed by the session's end event (:141-144)
reminderStop(r) ==
  [r EXCEPT !.session = "idle", !.isListening = FALSE]

\* medications.find(med => !med.taken) (:329, :363): its index, or 0
pending(medications) ==
  IF \E i \in 1..Len(medications) : ~medications[i].taken
  THEN CHOOSE i \in 1..Len(medications) :
         /\ ~medications[i].taken
         /\ \A j \in 1..(i - 1) : medications[j].taken
  ELSE 0

\* markMedicationTaken taking the id for the place in the list
markMedicationTakenByPlace(r, id) ==
  IF id \in 1..Len(r.medications)
  THEN [r EXCEPT !.medications[id] = [@ EXCEPT !.taken = TRUE, !.reminderCount = 0]]
  ELSE r

\* markMedicationTaken (part_000:109-131): prev.map over the list
markMedicationTaken(r, id) ==
  [r EXCEPT !.medications =
     [i \in 1..Len(@) |-> IF @[i].id = id
                          THEN [@[i] EXCEPT !.taken = TRUE, !.reminderCount = 0]
                          ELSE @[i]]]

\* updateReminderCount (part_000:134-148): prev.map over the list
updateReminderCount(r, id, count) ==
  [r EXCEPT !.medications =
     [i \in 1..Len(@) |-> IF @[i].id = id
                          THEN [@[i] EXCEPT !.reminderCount = count]
                          ELSE @[i]]]

\* triggerMedicationReminder (:207-255) in the closure c, for the medication at
\* place i of the closure's list
triggerMedicationReminder(r, c, i) ==
  LET currentMed == c.medications[i]
      id == currentMed.id
  IN  IF currentMed.taken
      THEN r                                                          \* :209-213
      ELSE LET spoken  == [r EXCEPT !.reminders = @ + 1]              \* :218
               counted == updateReminderCount(spoken, id, currentMed.reminderCount + 1)
           IN  IF c.recognition /\ ~c.isListening                     \* :243
               THEN reminderStart(counted) ELSE counted

\* checkMedicationReminders (:167-179) in the closure c at the time `time`, from
\* place i of the closure's list on
RECURSIVE checkMedicationReminders(_, _, _, _)
checkMedicationReminders(r, c, time, i) ==
  IF i > Len(c.medications) THEN r
  ELSE checkMedicationReminders(
         IF DefaultTime = time /\ ~c.medications[i].taken
         THEN triggerMedicationReminder(r, c, i) ELSE r,
         c, time, i + 1)

\* handleMedicationTaken (:326-360) in the closure c
handleMedicationTaken(r, c) ==
  LET pendingMed == pending(c.medications)
  IN  IF pendingMed # 0
      THEN LET marked == markMedicationTaken(r, c.medications[pendingMed].id)
           IN  IF c.recognition THEN reminderStop(marked) ELSE marked
      ELSE r                                                          \* :355-358

\* handleStopCommand (:362-373) in the closure c, with notifyFamily (:375-385)
handleStopCommand(r, c) ==
  LET pendingMed == pending(c.medications)
  IN  IF pendingMed # 0 /\ c.medications[pendingMed].reminderCount >= 2
      THEN LET notified == [r EXCEPT !.familyNotified = TRUE]
           IN  IF c.recognition THEN reminderStop(notified) ELSE notified
      ELSE r

\* recognition.onresult (:92-119) in the closure c: the transcript has a
\* confirmation word, a stop word, or neither
reminderOnResult(r, c, said) ==
  IF said = "confirmation" THEN handleMedicationTaken(r, c)
  ELSE IF said = "stop" THEN handleStopCommand(r, c)
  ELSE [r EXCEPT !.restart = ~c.isListening]                          \* :113-117

\* recognition.onerror (:121-139)
reminderOnError(r, error) ==
  [r EXCEPT !.isListening = FALSE,
            !.restart = IF error = "no-speech" THEN TRUE ELSE @]      \* :130-134

\* manualMarkTaken (:387-413), of the current render
manualMarkTaken(r, id) ==
  markMedicationTaken(reminderStop(r), id)

\* resetDailyMedications (part_000:151-164)
resetDailyMedications(r) ==
  [r EXCEPT !.medications =
     [i \in 1..Len(@) |-> [@[i] EXCEPT !.taken = FALSE, !.reminderCount = 0]]]

\* the rows of the medications table with these ids, ordered by name (part_000:44-48);
\* the names are in the order of the ids
RECURSIVE rowsOf(_)
rowsOf(ids) ==
  IF ids = {} THEN <<>>
  ELSE LET last == CHOOSE id \in ids : \A other \in ids : other <= id
       IN  Append(rowsOf(ids \ {last}), last)

\* fetchMedications (part_000:34-66) run to its end with this outcome of the query
fetchMedications(r, outcome, ids) ==
  IF outcome = "no user"
  THEN [r EXCEPT !.medications = <<>>, !.loading = FALSE]               \* :35-39
  ELSE IF outcome = "ok"
  THEN [r EXCEPT !.medications = [i \in 1..Cardinality(ids) |-> convertMedication(rowsOf(ids)[i])],
                 !.loading = FALSE]                                     \* :56-58, :64
  ELSE [r EXCEPT !.loading = FALSE]                \* query error or exception: :50-54, :60-64

\* [...list].sort((a, b) => a.name.localeCompare(b.name)): a stable sort
RECURSIVE sortByName(_)
sortByName(list) ==
  IF Len(list) <= 1 THEN list
  ELSE LET front == sortByName(SubSeq(list, 1, Len(list) - 1))
           med   == list[Len(list)]
           n     == Cardinality({i \in 1..Len(front) : front[i].id <= med.id})
       IN  SubSeq(front, 1, n) \o << med >> \o SubSeq(front, n + 1, Len(front))

\* list.filter(med => med.id !== id)
RECURSIVE without(_, _)
without(list, id) ==
  IF list = <<>> THEN <<>>
  ELSE IF Head(list).id = id THEN without(Tail(list), id)
  ELSE << Head(list) >> \o without(Tail(list), id)

\* the handler of the real-time subscription (part_000:185-201) for a change of the
\* row with this id
realtime(r, eventType, id) ==
  IF eventType = "INSERT"
  THEN [r EXCEPT !.medications = sortByName(Append(@, convertMedication(id)))]
  ELSE IF eventType = "UPDATE"
  THEN [r EXCEPT !.medications =
          [i \in 1..Len(@) |-> IF @[i].id = id THEN convertMedication(id) ELSE @[i]]]
  ELSE [r EXCEPT !.medications = without(@, id)]


(***************************************************************************)
(* The emergency-alert panel (EmergencyAlert component, src/unnamed/       *)
(* part_002)                                                               *)
(***************************************************************************)
\* the texts typed into the message field: nothing, a blank, "hi"
Messages == { <<>>, << 32 >>, << 104, 105 >> }

\* the panel after its mount (part_002:26-28, :45-46)
AlertMount ==
  [ contacts      |-> <<>>,       \* :26
    emergencyLogs |-> <<>>,       \* :28
    isManualAlert |-> FALSE,      \* :45
    alertMessage  |-> <<>>,       \* :46
    notifications |-> 0,          \* calls of simulateNotification (:79-105)
    now           |-> 1 ]         \* Date.now()

\* The visual-verification modal (VisualVerification.tsx), which the reminder
\* mounts while showVisualVerification is set (MedicationReminder.tsx:677-687);
\* here before its first opening.
ModalMount ==
  [ isOpen              |-> FALSE,      \* showVisualVerification (MedicationReminder.tsx:36)
    simulationStep      |-> 0,          \* :64
    completionTriggered |-> FALSE,
    error               |-> FALSE,      \* error # null (:49)
    camera              |-> "idle",     \* initializeCamera (:70-178): pending, ready, failed
    completions         |-> 0,          \* completion timers pending (:483-488)
    closeTimer          |-> FALSE,      \* the 4 s timer of the parent (:457-460) is pending
    openings            |-> 0,          \* openings so far
    calls               |-> 0 ]         \* onVerificationComplete(true) calls of this opening

\* setSimulationStep(step) and the effect that follows it (:461-491): reaching
\* step 4 for the first time arms the completion timers
advance(m, step) ==
  IF step >= 4 /\ ~m.completionTriggered
  THEN [m EXCEPT !.simulationStep = step, !.completionTriggered = TRUE, !.completions = @ + 1]
  ELSE [m EXCEPT !.simulationStep = step]

\* The useUsers hook (src/src/hooks/useUsers.ts) after its mount: the fetchUsers
\* of the mount effect (:87-89) is in flight.  A user is written as its id, no
\* user as 0; a run of fetchUsers in flight is written as the currentUser that
\* its render saw.
UsersMount ==
  [ users       |-> <<>>,         \* :14
    currentUser |-> 0,            \* :15
    loading     |-> TRUE,         \* :16
    fetches     |-> << 0 >>,      \* runs of fetchUsers in flight
    fetched     |-> 1 ]           \* runs of fetchUsers started

\* fetchUsers (useUsers.ts:28-77) of a render that saw currentUser, run to its end
\* with this outcome
fetchUsers(u, currentUser, outcome, ids) ==
  IF outcome = "ok"
  THEN [u EXCEPT !.users = rowsOf(ids),                                    \* :60   
                 !.currentUser = IF currentUser = 0 /\ ids # {}            \* :63-66
                                 THEN rowsOf(ids)[1] ELSE @,
                 !.loading = FALSE]                                        \* :75
  ELSE [u EXCEPT !.loading = FALSE]       \* no connection :34-38, error :45-56, throws :71-75

\* the components of the page after their mount
PageMount == [ alert |-> AlertMount, modal |-> ModalMount, users |-> UsersMount ]

\* addContact (part_002:36-44): the id is Date.now().toString()
addContact(p, isPrimary) ==
  [p EXCEPT !.contacts = Append(@, [ id |-> p.now, isPrimary |-> isPrimary ])]

\* the argument contactIds of sendEmergencyAlert when it is left out
NoContactIds == [ given |-> FALSE, ids |-> {} ]

\* contacts.filter(...) of sendEmergencyAlert (:53-55)
RECURSIVE contactsToNotify(_, _)
contactsToNotify(contacts, contactIds) ==
  IF contacts = <<>> THEN <<>>
  ELSE LET c == Head(contacts)
           keep == IF contactIds.given THEN c.id \in contactIds.ids ELSE c.isPrimary
       IN  (IF keep THEN << c >> ELSE <<>>) \o contactsToNotify(Tail(contacts), contactIds)

\* sendEmergencyAlert (part_002:48-77), run to its end; the id of the entry is
\* Date.now().toString()
sendEmergencyAlert(p, contactIds) ==
  LET notify == contactsToNotify(p.contacts, contactIds)
      newLog == [ id |-> p.now,
                  contactsNotified |-> [i \in 1..Len(notify) |-> notify[i].id],
                  resolved |-> FALSE ]
  IN  [p EXCEPT !.emergencyLogs = << newLog >> \o @,
                !.notifications = @ + Len(notify)]

\* handleManualAlert (part_002:107-116)
handleManualAlert(p) ==
  IF trim(p.alertMessage) = <<>>
  THEN p
  ELSE [sendEmergencyAlert(p, NoContactIds) EXCEPT !.alertMessage = <<>>,
                                                   !.isManualAlert = FALSE]

\* handleQuickAlert (part_002:118-128)
handleQuickAlert(p) == sendEmergencyAlert(p, NoContactIds)

\* resolveAlert (part_002:130-139)
resolveAlert(p, logId) ==
  [p EXCEPT !.emergencyLogs =
     [i \in 1..Len(@) |-> IF @[i].id = logId THEN [@[i] EXCEPT !.resolved = TRUE] ELSE @[i]]]


Init ==
  /\ recs = << NewRecognition(FALSE, FALSE, FALSE, FALSE) >>
  /\ isListening = FALSE
  /\ conversationActive = FALSE
  /\ isProcessing = FALSE
  /\ manuallyControlled = FALSE
  /\ currentLanguage = "en"
  /\ genAI \in BOOLEAN
  /\ silenceTimer = FALSE
  /\ silenceOrphans = 0
  /\ restartTimeout = 0
  /\ utterance = NoUtterance
  /\ tasks = <<>>
  /\ heard = 0
  /\ clicks = 0
  /\ userStopped = FALSE
  /\ reminder = ReminderMount
  /\ page = PageMount

\* The state a handler works on: the handlers below are functions from the state
\* before to the state after.
Now ==
  [ recs |-> recs, isListening |-> isListening, conversationActive |-> conversationActive,
    isProcessing |-> isProcessing, manuallyControlled |-> manuallyControlled,
    currentLanguage |-> currentLanguage, silenceTimer |-> silenceTimer,
    silenceOrphans |-> silenceOrphans,
    restartTimeout |-> restartTimeout, utterance |-> utterance, tasks |-> tasks ]

Deps(s) == << s.currentLanguage, s.conversationActive, s.isProcessing, s.manuallyControlled >>

\* React applies a handler's updates in one render.  The setup effect re-runs when
\* one of its dependencies (:945) changed: its cleanup (:937-944) clears the two
\* timers, its body creates a recognition object and an auto-start timer.
Rendered(before, s) ==
  IF Deps(s) # Deps(before)
  THEN [s EXCEPT !.recs = Append(@, NewRecognition(s.conversationActive, s.isProcessing,
                                                   s.manuallyControlled, s.isListening)),
                 !.silenceTimer = FALSE,
                 !.restartTimeout = 0]
  ELSE s

\* the recognition objects a run that has heard h final results may have created
RecBudget(h) == IF h < MaxHeard THEN MaxRec ELSE MaxRec - 1

\* the step from the current state to the state r
Apply(r) ==
      /\ Len(r.recs) <= RecBudget(heard')
      /\ Len(r.tasks) <= MaxTasks
      /\ \A k \in 1..Len(r.recs) : r.recs[k].settle <= MaxSettle
      /\ recs' = r.recs
      /\ isListening' = r.isListening
      /\ conversationActive' = r.conversationActive
      /\ isProcessing' = r.isProcessing
      /\ manuallyControlled' = r.manuallyControlled
      /\ currentLanguage' = r.currentLanguage
      /\ silenceTimer' = r.silenceTimer
      /\ silenceOrphans' = r.silenceOrphans
      /\ restartTimeout' = r.restartTimeout
      /\ utterance' = r.utterance
      /\ tasks' = r.tasks
      /\ genAI' = genAI

\* the step from the current state to the state s a handler leaves, rendered
Commit(s) == Apply(Rendered(Now, s))

(***************************************************************************)
(* The browser's objects                                                   *)
(***************************************************************************)
\* recognition.onend (:884-919) of recs[k]
onend(s, k) ==
  LET c == s.recs[k]
  IN  [s EXCEPT !.recs[k].st = "idle",
                !.recs[k].results = <<>>,
                !.isListening = FALSE,
                !.restartTimeout =
                   IF /\ ~c.conversationActive /\ ~c.manuallyControlled /\ ~c.isProcessing
                      /\ RestartCanAct(c)
                   THEN k ELSE 0]

\* The browser runs one recognition session at a time: starting a session aborts
\* the one that is capturing (Chromium, SpeechRecognitionManagerImpl::StartSession),
\* which gets an 'aborted' error (:875-877, no update) and its end event.
RECURSIVE abortOthers(_, _, _)
abortOthers(s, k, j) ==
  IF j = 0 THEN s
  ELSE abortOthers(IF j # k /\ s.recs[j].st \in {"starting", "listening"}
                   THEN onend(s, j) ELSE s, k, j - 1)

\* recognition.start(): throws InvalidStateError unless the object is idle; every
\* caller catches it.
start(s, k) ==
  IF s.recs[k].st = "idle"
  THEN [abortOthers(s, k, Len(s.recs)) EXCEPT !.recs[k].st = "starting"]
  ELSE s

\* recognition.stop(): the session ends later, with an end event; until then it may
\* still deliver a result for the audio it has captured.
stop(s, k) ==
  IF s.recs[k].st \in {"starting", "listening"}
  THEN [s EXCEPT !.recs[k].st = "stopping"]
  ELSE s

\* an onFinished callback of render k (:822-832, :1054-1063, ...): arms the 1 s
\* settle-delay timer
onFinished(s, k) ==
  IF k # 0 /\ SettleCanAct(k, s.recs[k])
  THEN [s EXCEPT !.recs[k].settle = @ + 1]
  ELSE s

\* speakResponse with the utterance it cancels dropped without its terminal event
speakResponseDropsCancelled(s, kind, callback) ==
  [s EXCEPT !.utterance = [ kind |-> kind, onFinished |-> callback ]]

\* speakResponse (:1343-1374): speechSynthesis.cancel() ends the utterance being
\* spoken, whose terminal event runs its onFinished; then the new one is spoken.
\* callback is 0, or the render whose closure onFinished is.
speakResponse(s, kind, callback) ==
  [onFinished(s, s.utterance.onFinished) EXCEPT
     !.utterance = [ kind |-> kind, onFinished |-> callback ]]

\* the utterance's terminal event with an onerror handler that does not call onFinished
utteranceEventErrorSilent(s, event) ==
  IF event = "end"
  THEN [onFinished(s, s.utterance.onFinished) EXCEPT !.utterance = NoUtterance]
  ELSE [s EXCEPT !.utterance = NoUtterance]

\* the terminal event of the utterance being spoken: utterance.onend (:1354-1359)
\* or utterance.onerror (:1361-1366)
utteranceEvent(s, event) ==
  IF event = "end"
  THEN [onFinished(s, s.utterance.onFinished) EXCEPT !.utterance = NoUtterance]
  ELSE [onFinished(s, s.utterance.onFinished) EXCEPT !.utterance = NoUtterance]

RemoveAt(seq, i) == SubSeq(seq, 1, i - 1) \o SubSeq(seq, i + 1, Len(seq))

(***************************************************************************)
(* Handlers                                                                *)
(***************************************************************************)
\* clearing the silence timer with the handle dropped and clearTimeout left out
clearSilenceTimerForgets(s) ==
  [s EXCEPT !.silenceTimer = FALSE,
            !.silenceOrphans = @ + (IF s.silenceTimer THEN 1 ELSE 0)]

\* clearTimeout(silenceTimerRef.current); silenceTimerRef.current = null (:780-783)
clearSilenceTimer(s) ==
  [s EXCEPT !.silenceTimer = FALSE]

\* silenceTimerRef.current = setTimeout(..., 8000) (:854-857): a timeout the ref
\* still held stays pending, and nothing holds it any more
armSilenceTimer(s) ==
  [s EXCEPT !.silenceTimer = TRUE,
            !.silenceOrphans = @ + (IF s.silenceTimer THEN 1 ELSE 0)]

\* handleConversationInput with the health-concern test made first
handleConversationInputHealthFirst(s, k, results) ==
  LET transcript   == trim(join(results))
      detectedLang == detectLanguage(transcript)
      analysis     == analyzeUserInput(transcript, detectedLang)
      kind         == IF analysis.isHealthConcern THEN "health"
                      ELSE IF analysis.isEmergency THEN "emergency" ELSE "general"
  IN  IF s.recs[k].isProcessing
      THEN s
      ELSE IF kind # "emergency" /\ ~genAI
      THEN [s EXCEPT !.isProcessing = FALSE, !.currentLanguage = detectedLang]
      ELSE [s EXCEPT !.isProcessing = TRUE,
                     !.currentLanguage = detectedLang,
                     !.tasks = Append(@, [ render |-> k, results |-> results, kind |-> kind,
                                           pc |-> IF kind = "emergency" THEN "save" ELSE "gen",
                                           notified |-> 0 ])]

\* handleConversationInput (:966-996) up to its first network wait, for the
\* onresult handler of recs[k]
handleConversationInput(s, k, results) ==
  LET transcript   == trim(join(results))
      detectedLang == detectLanguage(transcript)
      analysis     == analyzeUserInput(transcript, detectedLang)
      kind         == IF analysis.isEmergency THEN "emergency"
                      ELSE IF analysis.isHealthConcern THEN "health" ELSE "general"
  IN  IF s.recs[k].isProcessing
      THEN s                                                   \* :967
      ELSE IF kind # "emergency" /\ ~genAI
      THEN \* :1068-1072, :1169-1173: nothing is spoken; setIsProcessing(true) and
           \* setIsProcessing(false) go into the same render
           [s EXCEPT !.isProcessing = FALSE, !.currentLanguage = detectedLang]
      ELSE [s EXCEPT !.isProcessing = TRUE,
                     !.currentLanguage = detectedLang,
                     !.tasks = Append(@, [ render |-> k, results |-> results, kind |-> kind,
                                           pc |-> IF kind = "emergency" THEN "save" ELSE "gen",
                                           notified |-> 0 ])]

\* the calls of recognition.onresult with recognition.stop() made last
onresultCallsStopLast(c, results) ==
  LET finalTranscript == join(results)
      clear == IF finalTranscript # <<>> THEN << "clearSilenceTimer" >> ELSE <<>>
  IN  IF ~c.conversationActive /\ trim(finalTranscript) # <<>>
      THEN IF Activates(finalTranscript)
           THEN clear \o << "setConversationActive", "setIsListening", "speakResponse", "stop" >>
           ELSE clear
      ELSE IF c.conversationActive /\ trim(finalTranscript) # <<>>
      THEN clear \o << "setIsListening", "handleConversationInput", "armSilenceTimer", "stop" >>
      ELSE clear

\* the calls recognition.onresult (:761-860) makes, in program order, when its
\* closure is that of c and the results of the event are `results`
onresultCalls(c, results) ==
  LET finalTranscript == join(results)
      clear == IF finalTranscript # <<>> THEN << "clearSilenceTimer" >> ELSE <<>>  \* :776-784
  IN  IF ~c.conversationActive /\ trim(finalTranscript) # <<>>
      THEN IF Activates(finalTranscript)
           THEN \* :794-836
                clear \o << "stop", "setConversationActive", "setIsListening", "speakResponse" >>
           ELSE clear
      ELSE IF c.conversationActive /\ trim(finalTranscript) # <<>>
      THEN \* :837-859
           clear \o << "stop", "setIsListening", "handleConversationInput", "armSilenceTimer" >>
      ELSE clear

\* one call of recognition.onresult of recs[k]
onresultCall(s, k, results, name) ==
  CASE name = "clearSilenceTimer"       -> clearSilenceTimer(s)
    [] name = "stop"                    -> stop(s, k)
    [] name = "setConversationActive"   -> [s EXCEPT !.conversationActive = TRUE]
    [] name = "setIsListening"          -> [s EXCEPT !.isListening = FALSE]
    [] name = "speakResponse"           -> speakResponse(s, "greeting", k)
    [] name = "handleConversationInput" -> handleConversationInput(s, k, results)
    [] name = "armSilenceTimer"         -> armSilenceTimer(s)

\* the state after the calls, made in order from the state s
RECURSIVE onresultRun(_, _, _, _)
onresultRun(s, k, results, calls) ==
  IF calls = <<>> THEN s
  ELSE onresultRun(onresultCall(s, k, results, Head(calls)), k, results, Tail(calls))

\* recognition.onresult (:761-860) of recs[k] for an event whose results are `results`
onresult(s0, k, results) ==
  onresultRun(s0, k, results, onresultCalls(s0.recs[k], results))

\* the notice recognition.onerror shows to the user (toast.error, :866, :871)
notice(error) ==
  IF error = "not-allowed" THEN "microphone"
  ELSE IF error = "network" THEN "network"
  ELSE "none"

\* recognition.onerror (:862-882) of recs[k]
onerror(s, k, error) ==
  IF error = "not-allowed"
  THEN [s EXCEPT !.isListening = FALSE, !.manuallyControlled = TRUE]
  ELSE s

\* endConversation (:947-959)
endConversation(s) ==
  speakResponse([s EXCEPT !.conversationActive = FALSE, !.silenceTimer = FALSE],
                "farewell", 0)

\* the end of handleConversationInput for tasks[i]: the reply (or fallback) is
\* spoken and setIsProcessing(false) runs (:993)
speakAndReturn(s, i, kind) ==
  [speakResponse(s, kind, s.tasks[i].render) EXCEPT
     !.tasks = RemoveAt(@, i), !.isProcessing = FALSE]

\* startListening (:1376-1394).  The session that recognition.start() aborts
\* ends after the render of the handler's updates.
startListening(s) ==
  IF Len(s.recs) # 0 /\ ~s.isListening
  THEN start(Rendered(s, [s EXCEPT !.restartTimeout = 0, !.manuallyControlled = FALSE]),
             Len(s.recs))
  ELSE s

\* stopListening flipping isListening, as the quick-action button of the page does
stopListeningToggles(s) ==
  IF Len(s.recs) # 0
  THEN [(IF s.isListening THEN stop(s, Len(s.recs)) ELSE s) EXCEPT
          !.manuallyControlled = TRUE,
          !.conversationActive = FALSE,
          !.restartTimeout = 0,
          !.isListening = ~@]
  ELSE s

\* stopListening (:1396-1425)
stopListening(s) ==
  IF Len(s.recs) # 0
  THEN [(IF s.isListening THEN stop(s, Len(s.recs)) ELSE s) EXCEPT
          !.manuallyControlled = TRUE,
          !.conversationActive = FALSE,
          !.restartTimeout = 0,
          !.isListening = FALSE]
  ELSE s

(***************************************************************************)
(* Steps                                                                   *)
(***************************************************************************)
\* recognition.onstart (:754-759)
OnStart(k) ==
  /\ recs[k].st = "starting"
  /\ Commit([Now EXCEPT !.recs[k].st = "listening", !.isListening = TRUE])

\* a result event that adds the final result t to the session of recs[k]
OnResult(k, t) ==
  /\ recs[k].st \in {"listening", "stopping"}
  /\ LET results == Append(recs[k].results, t)
     IN  Commit(onresult([Now EXCEPT !.recs[k].results = results], k, results))

\* an error event of recs[k], followed by the end event of the session
OnError(k, error) ==
  /\ recs[k].st \in {"starting", "listening"}
  /\ Apply(onend(Rendered(Now, onerror(Now, k, error)), k))

\* the end event of recs[k]: after stop(), or when the service ends the session
OnEnd(k) ==
  /\ recs[k].st \in {"listening", "stopping"}
  /\ Commit(onend(Now, k))

\* utterance.onend / utterance.onerror (:1354-1366): both run onFinished
SpeechFinished(event) ==
  /\ utterance.kind # "none"
  /\ event \in {"end", "error"}
  /\ Commit(utteranceEvent(Now, event))

\* the initial auto-start timer of the effect run that created recs[k] (:924-934)
AutoStartFire(k) ==
  /\ recs[k].autoStart
  /\ Commit(start([Now EXCEPT !.recs[k].autoStart = FALSE], k))

\* the auto-restart timer armed by the onend handler (:904-915)
RestartFire ==
  /\ restartTimeout # 0
  /\ Commit(start([Now EXCEPT !.restartTimeout = 0], restartTimeout))

\* a settle-delay timer armed by an onFinished callback of render k
SettleFire(k) ==
  /\ recs[k].settle > 0
  /\ Commit(start([Now EXCEPT !.recs[k].settle = @ - 1], recognitionOfRender(k)))

\* the silence timer armed by onresult (:854-857)
SilenceFire ==
  \/ /\ silenceTimer
     /\ Commit(endConversation(Now))
  \/ /\ silenceOrphans > 0
     /\ Commit(endConversation([Now EXCEPT !.silenceOrphans = @ - 1]))

\* model.generateContent settles (:1099, :1215): ok, or it throws (:1137, :1253)
GenerateSettles(i, ok) ==
  /\ i \in 1..Len(tasks)
  /\ tasks[i].pc = "gen"
  /\ Commit(IF ok THEN [Now EXCEPT !.tasks[i].pc = "save"]
            ELSE speakAndReturn(Now, i, "fallback"))

\* saveIssueReport settles (:1038, :1113, :1229); it never throws (:1284-1301)
SaveSettles(i) ==
  /\ i \in 1..Len(tasks)
  /\ tasks[i].pc = "save"
  /\ Commit(IF tasks[i].kind = "emergency"
            THEN [Now EXCEPT !.tasks[i].pc = "notify", !.tasks[i].notified = @ + 1]  \* :1048
            ELSE speakAndReturn(Now, i, "reply"))

\* notifyFamily settles (:1048); it never throws (:1303-1341)
NotifySettles(i) ==
  /\ i \in 1..Len(tasks)
  /\ tasks[i].pc = "notify"
  /\ Commit(speakAndReturn(Now, i, "reply"))

\* the Start / Stop Listening button (:1563-1565), disabled while processing
StartStopButton ==
  /\ ~isProcessing
  /\ IF isListening THEN Commit(stopListening(Now)) ELSE Apply(startListening(Now))

\* the End Chat button (:1580-1588), shown during a conversation
EndChat ==
  /\ conversationActive
  /\ Commit(endConversation(Now))

\* the language buttons (:1531-1558), disabled while processing
SetLanguage(lang) ==
  /\ ~isProcessing
  /\ lang # currentLanguage
  /\ Commit([Now EXCEPT !.currentLanguage = lang])

\* the floating quick-action button of the page (page.tsx:90-102)
QuickAction ==
  Commit([Now EXCEPT !.isListening = ~isListening])

Errors == {"not-allowed", "network", "no-speech"}

\* the recognition service reports a final result
Hear ==
  /\ heard < MaxHeard
  /\ heard + clicks < MaxInputs
  /\ heard' = heard + 1
  /\ UNCHANGED << clicks, userStopped, reminder, page >>
  /\ \E k \in 1..Len(recs), t \in 1..Len(Heard) : OnResult(k, t)

\* a click of the user on button
Click(button) ==
  /\ clicks < MaxClicks
  /\ heard + clicks < MaxInputs
  /\ clicks' = clicks + 1
  /\ UNCHANGED << heard, reminder, page >>
  /\ button

\* a step of the browser, a timer or a network call leaves these alone
Event == UNCHANGED << heard, clicks, userStopped, reminder, page >>

Next ==
  \/ Event /\ \E k \in 1..Len(recs) : OnStart(k)
  \/ Event /\ \E k \in 1..Len(recs), error \in Errors : OnError(k, error)
  \/ Event /\ \E k \in 1..Len(recs) : OnEnd(k)
  \/ Event /\ \E event \in {"end", "error"} : SpeechFinished(event)
  \/ Event /\ \E k \in 1..Len(recs) : AutoStartFire(k)
  \/ Event /\ RestartFire
  \/ Event /\ \E k \in 1..Len(recs) : SettleFire(k)
  \/ Event /\ SilenceFire
  \/ Event /\ \E i \in 1..MaxTasks, ok \in BOOLEAN : GenerateSettles(i, ok)
  \/ Event /\ \E i \in 1..MaxTasks : SaveSettles(i)
  \/ Event /\ \E i \in 1..MaxTasks : NotifySettles(i)
  \/ Hear
  \/ Click(StartStopButton /\ userStopped' = isListening)
  \/ Click(EndChat /\ UNCHANGED userStopped)
  \/ \E lang \in {"en", "ml"} : Click(SetLanguage(lang) /\ UNCHANGED userStopped)
  \/ Click(QuickAction /\ UNCHANGED userStopped)

Spec == Init /\ [][Next]_vars

\* the recognition service reports a final result, any of Utterances
HearAny ==
  /\ heard < MaxClassified
  /\ heard' = heard + 1
  /\ UNCHANGED << clicks, userStopped, reminder, page >>
  /\ \E k \in 1..Len(recs), t \in 1..Len(Utterances) : OnResult(k, t)

\* The conversation without clicks and recognition errors, with every transcript
\* of Utterances: the runs in which the classification of the inputs is examined.
NextClassify ==
  \/ Event /\ \E k \in 1..Len(recs) : OnStart(k)
  \/ Event /\ \E k \in 1..Len(recs) : OnEnd(k)
  \/ Event /\ \E event \in {"end", "error"} : SpeechFinished(event)
  \/ Event /\ \E k \in 1..Len(recs) : AutoStartFire(k)
  \/ Event /\ RestartFire
  \/ Event /\ \E k \in 1..Len(recs) : SettleFire(k)
  \/ Event /\ SilenceFire
  \/ Event /\ \E i \in 1..MaxTasks, ok \in BOOLEAN : GenerateSettles(i, ok)
  \/ Event /\ \E i \in 1..MaxTasks : SaveSettles(i)
  \/ Event /\ \E i \in 1..MaxTasks : NotifySettles(i)
  \/ HearAny

SpecClassify == Init /\ [][NextClassify]_vars

(***************************************************************************)
(* Steps of the medication reminder                                        *)
(***************************************************************************)
\* the variables of the voice assistant
assistantVars == << recs, isListening, conversationActive, isProcessing, manuallyControlled,
                    currentLanguage, genAI, silenceTimer, silenceOrphans, restartTimeout,
                    utterance, tasks, heard, clicks, userStopped >>

\* fetchMedications settles with n medications (part_000:34-66)
FetchSettles(n) ==
  /\ ~reminder.loaded
  /\ reminder' = [reminder EXCEPT
                    !.loaded = TRUE,
                    !.loading = FALSE,
                    !.medications = [i \in 1..n |-> convertMedication(i)]]

\* a minute passes
MinutePasses ==
  /\ reminder.minute < Len(Clock)
  /\ reminder' = [reminder EXCEPT !.minute = @ + 1]

\* the callback of the 5 s interval: checkMedicationReminders of the first render
\* (:151), at the time of the clock
intervalCheck(r) == checkMedicationReminders(r, MountRender, Clock[r.minute], 1)

\* the 5 s interval fires
IntervalFires ==
  /\ reminder.reminders < MaxReminders
  /\ reminder' = intervalCheck(reminder)

\* the Mark Taken button of a medication that is not taken (:640-655)
MarkTakenButton(id) ==
  /\ \E i \in 1..Len(reminder.medications) :
        reminder.medications[i].id = id /\ ~reminder.medications[i].taken
  /\ reminder' = manualMarkTaken(reminder, id)

\* the Reset Day button (:576-582), disabled without a user
ResetDayButton ==
  /\ reminder.loaded
  /\ reminder' = resetDailyMedications(reminder)

\* the microphone button (:503-526): permission granted, recognition.start()
MicrophoneButton ==
  /\ reminder' = reminderStart(reminder)

\* recognition.onstart (:87-90)
ReminderOnStart ==
  /\ reminder.session = "starting"
  /\ reminder' = [reminder EXCEPT !.session = "listening", !.isListening = TRUE]

\* the single result of a session (continuous is false, :80), then its end event
ReminderOnResult(said) ==
  /\ reminder.session = "listening"
  /\ reminder' = reminderStop(reminderOnResult(reminder, MountRender, said))

\* an error of a session, then its end event
ReminderOnError(error) ==
  /\ reminder.session \in {"starting", "listening"}
  /\ reminder' = reminderStop(reminderOnError(reminder, error))

\* a restart timer of the handlers fires (:113-117, :130-134)
ReminderRestartFires ==
  /\ reminder.restart
  /\ reminder' = reminderStart([reminder EXCEPT !.restart = FALSE])

NextReminder ==
  \/ UNCHANGED << assistantVars, page >> /\ \E n \in 0..MaxMeds : FetchSettles(n)
  \/ UNCHANGED << assistantVars, page >> /\ MinutePasses
  \/ UNCHANGED << assistantVars, page >> /\ IntervalFires
  \/ UNCHANGED << assistantVars, page >> /\ \E id \in 1..MaxMeds : MarkTakenButton(id)
  \/ UNCHANGED << assistantVars, page >> /\ ResetDayButton
  \/ UNCHANGED << assistantVars, page >> /\ MicrophoneButton
  \/ UNCHANGED << assistantVars, page >> /\ ReminderOnStart
  \/ UNCHANGED << assistantVars, page >> /\ \E said \in {"confirmation", "stop", "other"} : ReminderOnResult(said)
  \/ UNCHANGED << assistantVars, page >> /\ \E error \in {"not-allowed", "no-speech"} : ReminderOnError(error)
  \/ UNCHANGED << assistantVars, page >> /\ ReminderRestartFires

SpecReminder == Init /\ [][NextReminder]_vars

\* the ids of the rows of the medications table, and one that is no row's id
MedicationIds == 1..(MaxMeds + 1)

\* a later run of fetchMedications (the refetch of addMedication, part_000:99-100,
\* or a change of the user) ends
FetchMedications(outcome, ids) ==
  /\ reminder.loaded
  /\ reminder' = fetchMedications(reminder, outcome, ids)

\* a real-time notification of the medications table arrives (part_000:185-201)
Realtime(eventType, id) ==
  /\ reminder.loaded
  /\ eventType = "INSERT" => Len(reminder.medications) < MaxList
  /\ reminder' = realtime(reminder, eventType, id)

\* a caller of the hook's markMedicationTaken (:332, :401, :434)
MarkMedicationTaken(id) ==
  /\ reminder.loaded
  /\ reminder' = markMedicationTaken(reminder, id)

\* a caller of the hook's updateReminderCount (:240)
UpdateReminderCount(id, count) ==
  /\ reminder.loaded
  /\ reminder' = updateReminderCount(reminder, id, count)

\* The useMedications hook (part_000) under every order of its calls and events.
NextMedications ==
  \/ UNCHANGED << assistantVars, page >> /\ \E n \in 0..MaxMeds : FetchSettles(n)
  \/ UNCHANGED << assistantVars, page >>
       /\ \E outcome \in {"no user", "error", "throws", "ok"}, ids \in SUBSET (1..MaxMeds) :
            FetchMedications(outcome, ids)
  \/ UNCHANGED << assistantVars, page >>
       /\ \E eventType \in {"INSERT", "UPDATE", "DELETE"}, id \in 1..MaxMeds :
            Realtime(eventType, id)
  \/ UNCHANGED << assistantVars, page >> /\ \E id \in MedicationIds : MarkMedicationTaken(id)
  \/ UNCHANGED << assistantVars, page >>
       /\ \E id \in MedicationIds, count \in 1..MaxReminders : UpdateReminderCount(id, count)
  \/ UNCHANGED << assistantVars, page >> /\ ResetDayButton

SpecMedications == Init /\ [][NextMedications]_vars

\* the variables of the voice assistant and of the medication reminder
componentVars == << assistantVars, reminder >>

\* the clock passes a millisecond
Tick ==
  /\ page.alert.now < MaxTime
  /\ page' = [page EXCEPT !.alert.now = @ + 1]

\* a caller of addContact (part_002:36-44)
AddContact(isPrimary) ==
  /\ Len(page.alert.contacts) < MaxContacts
  /\ page' = [page EXCEPT !.alert = addContact(@, isPrimary)]

\* one of the quick-alert buttons (part_002:235-259)
QuickAlertButton ==
  /\ Len(page.alert.emergencyLogs) < MaxLogs
  /\ page' = [page EXCEPT !.alert = handleQuickAlert(@)]

\* a caller of sendEmergencyAlert that names the contacts
AlertContacts(ids) ==
  /\ Len(page.alert.emergencyLogs) < MaxLogs
  /\ page' = [page EXCEPT !.alert = sendEmergencyAlert(@, [ given |-> TRUE, ids |-> ids ])]

\* the Custom Alert button (part_002:274) and its Cancel button (:296-299)
ManualAlertButton ==
  /\ page' = [page EXCEPT !.alert.isManualAlert = ~@,
                           !.alert.alertMessage = IF page.alert.isManualAlert THEN <<>> ELSE @]

\* the message field (part_002:283)
TypeMessage(message) ==
  /\ page.alert.isManualAlert
  /\ page' = [page EXCEPT !.alert.alertMessage = message]

\* the Send Alert button (part_002:289)
SendAlertButton ==
  /\ page.alert.isManualAlert
  /\ Len(page.alert.emergencyLogs) < MaxLogs
  /\ page' = [page EXCEPT !.alert = handleManualAlert(@)]

\* the Mark Resolved button of the entry at place i of the log (part_002:315, :341-343)
ResolveButton(i) ==
  /\ i \in 1..Len(page.alert.emergencyLogs)
  /\ i <= 5
  /\ ~page.alert.emergencyLogs[i].resolved
  /\ page' = [page EXCEPT !.alert = resolveAlert(@, @.emergencyLogs[i].id)]

NextAlert ==
  \/ UNCHANGED componentVars /\ Tick
  \/ UNCHANGED componentVars /\ \E isPrimary \in BOOLEAN : AddContact(isPrimary)
  \/ UNCHANGED componentVars /\ QuickAlertButton
  \/ UNCHANGED componentVars /\ \E ids \in SUBSET (1..MaxTime) : AlertContacts(ids)
  \/ UNCHANGED componentVars /\ ManualAlertButton
  \/ UNCHANGED componentVars /\ \E message \in Messages : TypeMessage(message)
  \/ UNCHANGED componentVars /\ SendAlertButton
  \/ UNCHANGED componentVars /\ \E i \in 1..MaxLogs : ResolveButton(i)

SpecAlert == Init /\ [][NextAlert]_vars

\* the camera button of a medication (MedicationReminder.tsx:423-427, :644) mounts
\* the modal; its open effect (:389-407) resets the state and starts the camera
OpenModal ==
  /\ ~page.modal.isOpen
  /\ page.modal.openings < MaxOpenings
  /\ page' = [page EXCEPT !.modal = [@ EXCEPT !.isOpen = TRUE,
                                              !.simulationStep = 0,
                                              !.completionTriggered = FALSE,
                                              !.error = FALSE,
                                              !.camera = "pending",
                                              !.openings = @ + 1,
                                              !.calls = 0]]

\* initializeCamera settles (:70-178): the camera is ready, or an error is shown
CameraSettles(ok) ==
  /\ page.modal.isOpen
  /\ page.modal.camera = "pending"
  /\ page' = [page EXCEPT !.modal.camera = IF ok THEN "ready" ELSE "failed",
                           !.modal.error = ~ok]

\* the simulation advances by one step: the timer of the auto-progression effect
\* (:421-459) fires, or the manual button of the step is clicked (:647-710)
Advance(by) ==
  /\ page.modal.isOpen
  /\ ~page.modal.error
  /\ page.modal.simulationStep < 4
  /\ by = "button" => page.modal.camera # "pending" /\ ~page.modal.completionTriggered
  /\ page' = [page EXCEPT !.modal = advance(@, @.simulationStep + 1)]

\* the buttons of the error panel: Try Simulation Mode (:543-550), Retry Camera
\* Access (:555-559)
ErrorPanelButton(button) ==
  /\ page.modal.isOpen
  /\ page.modal.error
  /\ page' = IF button = "simulation"
              THEN [page EXCEPT !.modal = [advance(@, 0) EXCEPT !.error = FALSE]]
              ELSE [page EXCEPT !.modal.error = FALSE, !.modal.camera = "pending"]

\* the modal is closed and unmounted: its X button (:519-524, :493-498), or the
\* 4 s timer of the parent after a completion (MedicationReminder.tsx:457-460)
Close(by) ==
  /\ by = "button" => page.modal.isOpen
  /\ by = "timer" => page.modal.closeTimer
  /\ page' = [page EXCEPT !.modal.isOpen = FALSE,
                           !.modal.closeTimer = IF by = "timer" THEN FALSE ELSE @]

\* the completion timers (1 s, then 2 s, :483-488) have passed:
\* onVerificationComplete(true), handleVisualVerificationComplete
\* (MedicationReminder.tsx:429-467)
CompletionFires ==
  /\ page.modal.completions > 0
  /\ page' = [page EXCEPT !.modal.completions = @ - 1,
                           !.modal.calls = @ + 1,
                           !.modal.closeTimer = TRUE]

NextModal ==
  \/ UNCHANGED componentVars /\ OpenModal
  \/ UNCHANGED componentVars /\ \E ok \in BOOLEAN : CameraSettles(ok)
  \/ UNCHANGED componentVars /\ \E by \in {"timer", "button"} : Advance(by)
  \/ UNCHANGED componentVars /\ \E button \in {"simulation", "retry"} : ErrorPanelButton(button)
  \/ UNCHANGED componentVars /\ \E by \in {"timer", "button"} : Close(by)
  \/ UNCHANGED componentVars /\ CompletionFires

SpecModal == Init /\ [][NextModal]_vars

\* a caller of the hook's refetch (useUsers.ts:96): fetchUsers of the current render
Refetch ==
  /\ page.users.fetched < MaxFetches
  /\ page' = [page EXCEPT !.users.fetches = Append(@, page.users.currentUser),
                           !.users.fetched = @ + 1]

\* the run of fetchUsers at place i of those in flight ends
FetchUsersSettles(i, outcome, ids) ==
  /\ i \in 1..Len(page.users.fetches)
  /\ page' = [page EXCEPT !.users =
                 [fetchUsers(@, @.fetches[i], outcome, ids) EXCEPT
                    !.fetches = RemoveAt(@, i)]]

\* a user button of the patient selector (MedicationReminder.tsx:541): switchUser
\* (useUsers.ts:80-83)
SwitchUser(i) ==
  /\ i \in 1..Len(page.users.users)
  /\ page' = [page EXCEPT !.users.currentUser = page.users.users[i]]

\* The fetches of the two data hooks: useUsers, and fetchMedications of
\* useMedications.
NextFetch ==
  \/ UNCHANGED componentVars /\ Refetch
  \/ UNCHANGED componentVars
       /\ \E i \in 1..MaxFetches, ids \in SUBSET (1..MaxUsers),
             outcome \in {"no connection", "error", "throws", "ok"} :
            FetchUsersSettles(i, outcome, ids)
  \/ UNCHANGED componentVars /\ \E i \in 1..MaxUsers : SwitchUser(i)
  \/ UNCHANGED << assistantVars, page >> /\ \E n \in 0..MaxMeds : FetchSettles(n)
  \/ UNCHANGED << assistantVars, page >>
       /\ \E outcome \in {"no user", "error", "throws", "ok"}, ids \in SUBSET (1..MaxMeds) :
            FetchMedications(outcome, ids)

SpecFetch == Init /\ [][NextFetch]_vars

TypeOK ==
  /\ Len(recs) \in 1..MaxRec
  /\ \A k \in 1..Len(recs) : recs[k].st \in {"idle", "starting", "listening", "stopping"}
  /\ restartTimeout \in 0..Len(recs)
  /\ Len(tasks) <= MaxTasks
  /\ silenceOrphans \in Nat

(***************************************************************************)
(* Vocabulary of the properties                                            *)
(***************************************************************************)
\* the Input Channel: a recognition session is capturing
Capturing(k) == recs[k].st = "listening"
InputActive == \E k \in 1..Len(recs) : Capturing(k)

\* the Output Channel: an utterance is being spoken
OutputActive == utterance.kind # "none"

\* a step in which some recognition.start() takes effect
Started == \E k \in 1..Len(recs) : recs[k].st = "idle" /\ recs'[k].st = "starting"

\* a step in which the utterance being spoken completes (it is not cancelled by
\* another speakResponse)
Completes(kind) == utterance.kind = kind /\ utterance' = NoUtterance

SettlePending == \E k \in 1..Len(recs) : recs[k].settle > 0

\* C1: the Input Channel and the Output Channel are never active at the same time.
C1_MutualExclusion == ~(InputActive /\ OutputActive)

\* a step that is the Stop Listening button calling stopListening
StopStep == isListening /\ StartStopButton

\* the controller is Idle: no conversation, neither channel active, and no silence,
\* auto-restart or settle-delay timer pending
Idle ==
  /\ ~conversationActive
  /\ \A k \in 1..Len(recs) : recs[k].st \notin {"starting", "listening"}
  /\ ~OutputActive
  /\ ~silenceTimer
  /\ restartTimeout = 0
  /\ ~SettlePending

\* C2: an external stop leaves the controller Idle.
C2_StopLeavesIdle == [][StopStep => Idle']_vars

\* C3: after an external stop nothing starts recognition until the user starts it.
C3_NoAutoRestartAfterStop == [][userStopped /\ userStopped' => ~Started]_vars

\* C6: while the greeting is being spoken, nothing starts recognition.
C6_NoStartDuringGreeting ==
  [][utterance.kind = "greeting" /\ utterance' = utterance => ~Started]_vars

\* C8: at most one execution of handleConversationInput is in flight.
C8_SingleFlight == Len(tasks) <= 1

\* a step in which the final result Heard[t] is delivered to recs[k] as the first
\* result of its session
Delivered(k, t) ==
  /\ heard' = heard + 1
  /\ k \in 1..Len(recs)
  /\ recs[k].results = <<>>
  /\ recs'[k].results = << t >>

\* the controller is in Listening: a conversation is active, the Input Channel is
\* capturing, nothing is being processed or spoken
Listening ==
  /\ conversationActive
  /\ InputActive
  /\ ~isProcessing
  /\ tasks = <<>>
  /\ ~OutputActive

\* C4: while the controller is in Listening, the SilenceTimer that ends the
\* conversation (Idle, one farewell) after 8 s without a final transcript is pending.
C4_SilenceTimerBoundsTheWait == Listening => silenceTimer

\* C5: the Input Channel is stopped from the activation until the greeting
\* completes, and the completion schedules its restart (the settle-delay timer).
C5_GreetingThenListening ==
  [][Completes("greeting")
       => /\ \A k \in 1..Len(recs) : recs[k].st \notin {"starting", "listening"}
          /\ SettlePending']_vars

\* C7: in Listening, "I have chest pain" starts an emergency execution of
\* handleConversationInput (Processing), and every emergency execution calls
\* notifyFamily exactly once before its reply is spoken.
C7_ChestPainIsEmergency ==
  [][/\ \A k \in 1..Len(recs) :
          Listening /\ Capturing(k) /\ Delivered(k, 3)
            => /\ isProcessing'
               /\ \E i \in 1..Len(tasks') : /\ tasks'[i].kind = "emergency"
                                            /\ tasks'[i].results = << 3 >>
     /\ \A i \in 1..Len(tasks) :
          tasks[i].kind = "emergency" /\ Len(tasks') < Len(tasks)
            => tasks[i].notified = 1 /\ utterance'.kind = "reply"]_vars

C10_StopIsIdempotent ==
  LET once == Rendered(Now, stopListening(Now))
  IN  Rendered(once, stopListening(once)) = once

\* stopListening has just stopped a capturing session
C10_Witness ==
  /\ userStopped
  /\ manuallyControlled
  /\ \E k \in 1..Len(recs) : recs[k].st = "stopping"

\* a step in which an execution of handleConversationInput returns
Returns == Len(tasks') < Len(tasks)

\* C11: the result of a generation call that completes after the conversation was
\* stopped or ended is discarded: nothing is spoken and no restart is scheduled.
C11_ResultsDiscardedAfterStop ==
  [][Returns /\ ~conversationActive
       => /\ utterance' = utterance
          /\ \A k \in 1..Len(recs) : recs'[k].settle <= recs[k].settle]_vars

\* a step in which the session of recs[k], stopped by recognition.stop(), ends
EndsAfterStop(k) == recs[k].st = "stopping" /\ recs'[k].st = "idle"

\* C12: the end event of a session the controller stopped itself (on activation or
\* to process an input of the conversation) arms no auto-restart timer.
C12_EndAfterProgrammaticStop ==
  [][\A k \in 1..Len(recs) :
       EndsAfterStop(k) /\ conversationActive /\ ~userStopped
         => restartTimeout' = 0]_vars

\* C13: whenever the utterance being spoken finishes, by its end event or by a
\* synthesis error, the completion callback passed to speakResponse has run: the
\* step leaves the timers that callback arms.
C13_ErrorRunsCallback ==
  [][utterance.kind # "none" /\ utterance' = NoUtterance
       => recs' = onFinished(Now, utterance.onFinished).recs]_vars

\* an utterance has finished and its completion callback has armed the settle delay
C13_Witness == utterance = NoUtterance /\ SettlePending

\* manuallyControlled was set by the 'not-allowed' branch of recognition.onerror
\* (:868), its only setter besides stopListening, and the user has not started
\* recognition since
PermissionDenied == manuallyControlled /\ ~userStopped

\* C14: after a 'not-allowed' error nothing starts recognition until the user does.
C14_PermissionDeniedIsTerminal ==
  [][PermissionDenied /\ PermissionDenied' => ~Started]_vars

\* C15: a 'network' or 'no-speech' error changes no flag of the controller, shows no
\* notice, and the end of the session arms the restart of its recognition object.
C15_BenignErrors ==
  [][\A k \in 1..Len(recs), error \in {"network", "no-speech"} :
       OnError(k, error)
         => /\ conversationActive' = conversationActive
            /\ manuallyControlled' = manuallyControlled
            /\ isProcessing' = isProcessing
            /\ notice(error) = "none"
            /\ restartTimeout' = k]_vars

\* a step in which a final result reaches the onresult handler of recs[k] in its
\* conversation branch and handleConversationInput passes its guard (:967)
Accepted(k) ==
  /\ heard' = heard + 1
  /\ recs'[k].results # recs[k].results
  /\ recs[k].conversationActive
  /\ ~recs[k].isProcessing
  /\ trim(join(recs'[k].results)) # <<>>

\* C16: an input of the conversation that the Response Generator cannot answer is
\* answered with the fallback utterance: once the input is accepted, a generation
\* is in flight or the fallback is being spoken.
C16_FallbackWhenUnavailable ==
  [][\A k \in 1..Len(recs) :
       Accepted(k) => Len(tasks') > Len(tasks) \/ utterance'.kind = "fallback"]_vars

\* recs[j] takes the input of the conversation: its handlers saw the conversation
\* active and no input being processed
TakesConversationInput(j) ==
  /\ recs[j].st \in {"starting", "listening"}
  /\ recs[j].conversationActive
  /\ ~recs[j].isProcessing

\* C17: in a conversation that was neither stopped nor ended, the settle delay that
\* follows the completion of a reply re-arms the Input Channel: when its timer
\* fires and starts recognition, a session that takes the conversation's input is
\* capturing or starting.
C17_ReplyRearmsInput ==
  [][\A k \in 1..Len(recs) :
       /\ genAI /\ conversationActive /\ ~manuallyControlled
       /\ SettleFire(k) /\ recs[recognitionOfRender(k)].st = "idle"
       => \E j \in 1..Len(recs) : TakesConversationInput(j)']_vars

\* a step in which endConversation runs: by the SilenceTimer or by End Chat
Ends == conversationActive /\ ~conversationActive' /\ utterance'.kind = "farewell"

\* recs[j] awaits the activation phrase: now, or once a pending timer has started
\* it, or once its session has ended and its onend handler has armed that timer
AwaitsActivation(j) ==
  /\ ~recs[j].conversationActive
  /\ \/ recs[j].st \in {"starting", "listening"}
     \/ recs[j].autoStart
     \/ restartTimeout = j
     \/ recs[j].st = "stopping" /\ onend(Now, j).restartTimeout = j

\* C18: endConversation speaks the farewell and returns the session to awaiting
\* activation: unless the user took control, a recognition object that listens for
\* the activation phrase is capturing or scheduled to start.
C18_FarewellThenAwaitingActivation ==
  [][Ends /\ ~manuallyControlled
       => \E j \in 1..Len(recs') : AwaitsActivation(j)']_vars

\* C19: a timer does not act once the state that armed it is superseded: the
\* settle delay starts no recognition after the conversation has ended, the
\* auto-restart timer starts none in a conversation or after the user took control,
\* and the SilenceTimer speaks no farewell outside a conversation.
C19_SupersededTimersDoNotAct ==
  [][Event
       => /\ (\E k \in 1..Len(recs) : SettleFire(k)) /\ ~conversationActive => ~Started
          /\ RestartFire /\ (conversationActive \/ manuallyControlled) => ~Started
          /\ SilenceFire /\ ~conversationActive => utterance' = utterance]_vars

\* C20: every pending silence timeout is the one silenceTimerRef holds, so at most
\* one is pending; and a final transcript that arms no new one (it arrives outside
\* the conversation branch) leaves none pending.
C20_OneSilenceTimer ==
  [][/\ silenceOrphans' = 0
     /\ \A k \in 1..Len(recs) :
          /\ heard' = heard + 1
          /\ recs'[k].results # recs[k].results
          /\ ~recs[k].conversationActive
          => ~silenceTimer']_vars

\* a session of the conversation has taken a second final result, which cancelled
\* the silence timer the first had armed and armed a new one
C20_Witness ==
  /\ silenceTimer
  /\ \E k \in 1..Len(recs) : recs[k].conversationActive /\ Len(recs[k].results) >= 2

\* C21: a SilenceTimer armed for a turn of the conversation stays armed through
\* Processing, Speaking and the restart of Listening: the final transcript that
\* starts the turn leaves it pending, and a pending one is removed only by a new
\* final transcript, by firing, or by the stop or the end of the conversation.
C21_SilenceTimerSurvivesTheTurn ==
  [][/\ \A k \in 1..Len(recs) :
          Accepted(k) /\ Len(tasks') > Len(tasks) => silenceTimer'
     /\ silenceTimer /\ ~silenceTimer'
          => \/ heard' = heard + 1
             \/ Event /\ SilenceFire
             \/ StopStep
             \/ Ends]_vars

\* a step in which a final result reaches the onresult handler of recs[k] and the
\* handler takes its activation branch (:786-836)
Activated(k) ==
  /\ heard' = heard + 1
  /\ recs'[k].results # recs[k].results
  /\ ~recs[k].conversationActive
  /\ Activates(join(recs'[k].results))

\* the final results the session of recs[k] has delivered so far have been consumed:
\* the handler activated on them, or passed them to handleConversationInput
Consumed(k) ==
  /\ recs[k].results # <<>>
  /\ IF recs[k].conversationActive
     THEN ~recs[k].isProcessing /\ trim(join(recs[k].results)) # <<>>
     ELSE Activates(join(recs[k].results))

\* C22: a final transcript is consumed at most once: a later result event of the
\* same session causes no activation and no handleConversationInput execution on
\* final results that were consumed already.
C22_TranscriptConsumedOnce ==
  [][\A k \in 1..Len(recs) :
       Activated(k) \/ Accepted(k) => ~Consumed(k)]_vars

\* the calls of recognition.onresult that change the state of the controller or
\* begin the classification of the input
ChangesState == {"setConversationActive", "speakResponse", "handleConversationInput"}

\* C23: the Input Channel is stopped before the controller changes state or begins
\* classification: when the onresult handler of a session sets the conversation
\* active, speaks the greeting or calls handleConversationInput, it has called
\* recognition.stop() before, and its session is no longer capturing.
C23_StopPrecedesStateChange ==
  [][\A k \in 1..Len(recs) :
       heard' = heard + 1 /\ recs'[k].results # recs[k].results
       => LET results == recs'[k].results
              calls   == onresultCalls(recs[k], results)
              s0      == [Now EXCEPT !.recs[k].results = results]
          IN  \A i \in 1..Len(calls) :
                calls[i] \in ChangesState
                => /\ \E j \in 1..(i - 1) : calls[j] = "stop"
                   /\ onresultRun(s0, k, results, SubSeq(calls, 1, i - 1)).recs[k].st
                        \notin {"starting", "listening"}]_vars

\* a session was stopped by its activation, and a session was stopped for the
\* conversation input that is being processed
C23_Witness ==
  /\ \E k \in 1..Len(recs) : /\ recs[k].st = "stopping"
                             /\ ~recs[k].conversationActive
                             /\ Activates(join(recs[k].results))
  /\ \E i \in 1..Len(tasks) : recs[tasks[i].render].st = "stopping"

\* the transcript the onresult handler of recs[k] passes to handleConversationInput
\* in this step (:850)
Input(k) == trim(join(recs'[k].results))

\* text contains, in any letter case, a keyword of the list
Mentions(text, keywords) ==
  \E j \in 1..Len(keywords) : includes(toLowerCase(text), toLowerCase(keywords[j]))

\* C24: the emergency keywords are checked first: an input with an emergency
\* keyword of its detected language is handled as emergency, also when it contains
\* a health-concern keyword; an input with neither is handled as general (and no
\* input without an emergency keyword is handled as emergency).
C24_EmergencyCheckedFirst ==
  [][\A k \in 1..Len(recs) :
       Accepted(k)
       => LET ml        == detectLanguage(Input(k)) = "ml"
              emergency == Mentions(Input(k), IF ml THEN emergencyKeywordsMl ELSE emergencyKeywordsEn)
              health    == Mentions(Input(k), IF ml THEN healthKeywordsMl ELSE healthKeywordsEn)
              started   == Len(tasks') > Len(tasks)
              kind      == tasks'[Len(tasks')].kind
          IN  /\ emergency => started /\ kind = "emergency"
              /\ ~emergency /\ health /\ started => kind = "health"
              /\ ~emergency /\ ~health /\ started => kind = "general"
              /\ ~emergency /\ genAI => started]_vars

\* "Help I feel SICK", which has an emergency and a health-concern keyword, is
\* being handled as an emergency
C24_Witness ==
  \E i \in 1..Len(tasks) : tasks[i].kind = "emergency" /\ tasks[i].results = << 4 >>

\* a step in which the execution tasks[i] of handleConversationInput returns
ReturnsTask(i) == i \in 1..Len(tasks) /\ tasks' = RemoveAt(tasks, i)

\* C25: for every input classified as an emergency or a health concern the
\* notification fan-out (notifyFamily, which inserts one message per registered
\* contact) has run exactly once when the execution returns, whatever is spoken.
C25_FanOutForEmergencyAndHealth ==
  [][\A i \in 1..Len(tasks) :
       ReturnsTask(i) /\ tasks[i].kind \in {"emergency", "health"}
         => tasks[i].notified = 1]_vars

\* C26: saying "I'm not feeling well" in a conversation starts the emergency
\* handling, the only one that notifies the family.
C26_NotFeelingWellAlertsFamily ==
  [][\A k \in 1..Len(recs) :
       Accepted(k) /\ Input(k) = NotFeelingWell
         => /\ Len(tasks') > Len(tasks)
            /\ tasks'[Len(tasks')].kind = "emergency"]_vars

\* the medication at place id of the user's list is due and not taken
Due(id) ==
  /\ id \in 1..Len(reminder.medications)
  /\ Clock[reminder.minute] = DefaultTime
  /\ ~reminder.medications[id].taken

\* C27: reminders are persistent: every check of the 5 s interval triggers one
\* reminder for each medication that is due and not taken, so the reminders repeat
\* until the medication is marked taken, and none for a medication that is taken.
C27_PersistentReminders ==
  intervalCheck(reminder).reminders
    = reminder.reminders + Cardinality({id \in 1..MaxMeds : Due(id)})

\* C28: a missed medication is reported to the family: when the minute in which a
\* medication was due ends with the medication not taken, notifyFamily has run.
C28_MissedMedicationNotifiesFamily ==
  [][MinutePasses /\ (\E id \in 1..MaxMeds : Due(id)) => reminder'.familyNotified]_vars

Noise(k) ==
  /\ heard' = heard + 1
  /\ recs'[k].results # recs[k].results
  /\ ~some(activationPhrases, trim(toLowerCase(join(recs'[k].results))))

\* C30: while no conversation is active, a final transcript without an activation
\* phrase is noise: nothing is spoken, recognition is not stopped, no input is
\* taken and conversationActive, isProcessing and manuallyControlled are unchanged.
C30_NoiseOutsideConversation ==
  [][\A k \in 1..Len(recs) :
       ~conversationActive /\ Noise(k)
         => /\ utterance' = utterance
            /\ recs'[k].st = recs[k].st
            /\ tasks' = tasks
            /\ conversationActive' = conversationActive
            /\ isProcessing' = isProcessing
            /\ manuallyControlled' = manuallyControlled]_vars


\* a step in which the controller calls recognition.start() on recs[k]: from the
\* initial auto-start timer (:924-934), the auto-restart timer (:904-915), a
\* settle-delay timer after speech (:822-832, :1054-1062) or startListening
\* (:1376-1394)
StartCalled(k) ==
  \/ Event /\ AutoStartFire(k)
  \/ Event /\ RestartFire /\ restartTimeout = k
  \/ Event /\ \E j \in 1..Len(recs) : SettleFire(j) /\ recognitionOfRender(j) = k
  \/ /\ Click(StartStopButton /\ userStopped' = isListening)
     /\ ~isListening /\ recognition = k

\* C31: the controller never calls recognition.start() on a recognition object
\* whose session is already active: whenever the initial auto-start, the
\* auto-restart, the restart after speech or the manual start calls start(), the
\* object is idle.
C31_StartOnlyWhenIdle ==
  [][\A k \in 1..Len(recs) : StartCalled(k) => recs[k].st = "idle"]_vars


\* a recognition session of the assistant is active: it has started (onstart) and
\* has not ended; stopped by recognition.stop(), it is active until its end event
SessionActive == \E k \in 1..Len(recs) : recs[k].st \in {"listening", "stopping"}

\* C32: the shared isListening flag agrees with the recognition state: it is true
\* only while a session of the assistant is active, and it is true whenever a
\* session is capturing (a session that was stopped and has not ended yet may
\* have either value).
C32_ListeningFlagConsistent ==
  /\ isListening => SessionActive
  /\ InputActive => isListening


\* C33: markMedicationTaken(id) sets taken and clears reminderCount of the
\* medication with that id and leaves every other medication, the order and the
\* length of the list unchanged; for an id that is not in the list it changes
\* nothing.
C33_MarkTakenFrame ==
  [][\A id \in MedicationIds :
       MarkMedicationTaken(id)
         => LET before == reminder.medications
                after  == reminder'.medications
            IN  /\ Len(after) = Len(before)
                /\ \A i \in 1..Len(before) :
                     after[i] = IF before[i].id = id
                                THEN [before[i] EXCEPT !.taken = TRUE, !.reminderCount = 0]
                                ELSE before[i]
                /\ (\A i \in 1..Len(before) : before[i].id # id) => reminder' = reminder]_vars

\* a medication that is not at the place of its id has been marked taken, beside
\* one that is not taken and has been reminded of
C33_Witness ==
  \E i, j \in 1..Len(reminder.medications) :
    /\ reminder.medications[i].taken
    /\ reminder.medications[i].id # i
    /\ ~reminder.medications[j].taken
    /\ reminder.medications[j].reminderCount > 0


\* the list holds the medication id, marked taken
TakenIn(medications, id) ==
  \E i \in 1..Len(medications) : medications[i].id = id /\ medications[i].taken

\* the list holds the medication id, not marked taken
NotTakenIn(medications, id) ==
  \E i \in 1..Len(medications) : medications[i].id = id /\ ~medications[i].taken

\* C34: a medication marked taken stays taken in the list, as long as it is in the
\* list, until resetDailyMedications is called: no other step (a real-time
\* INSERT or UPDATE notification, a refetch) leaves it in the list not taken.
C34_TakenUntilReset ==
  [][\A id \in MedicationIds :
       /\ TakenIn(reminder.medications, id)
       /\ ~NotTakenIn(reminder.medications, id)
       /\ NotTakenIn(reminder'.medications, id)
       => ResetDayButton]_vars


\* the medications that a step marks taken
NewlyTaken ==
  {id \in MedicationIds : NotTakenIn(reminder.medications, id)
                            /\ ~NotTakenIn(reminder'.medications, id)
                            /\ TakenIn(reminder'.medications, id)}

\* C35: a spoken confirmation marks exactly one medication taken when a medication
\* of the list is pending, and marks nothing when none is.
C35_ConfirmationMarksOne ==
  [][ReminderOnResult("confirmation")
       => Cardinality(NewlyTaken) = IF pending(reminder.medications) # 0 THEN 1 ELSE 0]_vars


\* a step in which sendEmergencyAlert is called with these contact ids
Sends(contactIds) ==
  \/ ~contactIds.given /\ QuickAlertButton
  \/ ~contactIds.given /\ SendAlertButton /\ trim(page.alert.alertMessage) # <<>>
  \/ contactIds.given /\ AlertContacts(contactIds.ids)

\* the ids of the contacts that sendEmergencyAlert is to notify, in their order
Notified(contactIds) ==
  LET contacts == page.alert.contacts
      chosen   == {i \in 1..Len(contacts) :
                     IF contactIds.given THEN contacts[i].id \in contactIds.ids
                     ELSE contacts[i].isPrimary}
  IN  [n \in 1..Cardinality(chosen) |->
         contacts[CHOOSE i \in chosen : Cardinality({j \in chosen : j <= i}) = n].id]

\* C36: every sendEmergencyAlert call prepends exactly one unresolved log entry
\* listing the contacts notified (the given ids, else the primary contacts);
\* resolving an entry sets resolved on that entry only; a resolved entry never
\* becomes unresolved; a manual alert with an empty message sends nothing and adds
\* no entry.
C36_AlertLog ==
  [][LET before == page.alert.emergencyLogs
         after  == page'.alert.emergencyLogs
         added  == Len(after) - Len(before)
     IN  /\ \A given \in BOOLEAN, ids \in SUBSET (1..MaxTime) :
               LET contactIds == [ given |-> given, ids |-> ids ]
               IN  Sends(contactIds)
                     => /\ added = 1
                        /\ Tail(after) = before
                        /\ ~after[1].resolved
                        /\ after[1].contactsNotified = Notified(contactIds)
         /\ \A i \in 1..MaxLogs :
               ResolveButton(i)
                 => /\ added = 0
                    /\ \A j \in 1..Len(before) :
                         after[j] = IF j = i THEN [before[j] EXCEPT !.resolved = TRUE]
                                    ELSE before[j]
         /\ added >= 0
         /\ \A j \in 1..Len(before) : before[j].resolved => after[j + added].resolved
         /\ SendAlertButton /\ trim(page.alert.alertMessage) = <<>>
               => /\ after = before
                  /\ page'.alert.notifications = page.alert.notifications]_vars


\* C37: while the modal stays open the simulation step only stays or advances by
\* one (never skips, never goes back); onVerificationComplete(true) is called at
\* most once per opening, and never after the modal has been closed.
C37_StepsAndCompletion ==
  [][LET m == page.modal
         n == page'.modal
     IN  /\ m.isOpen /\ n.isOpen /\ n.openings = m.openings
               => n.simulationStep \in {m.simulationStep, m.simulationStep + 1}
         /\ CompletionFires => m.isOpen /\ n.calls <= 1]_vars


\* C38: every fetch of users or of medications ends with loading false, whatever
\* its outcome; a failed fetch leaves the list loaded before and the current
\* user as they were; a fetch of users selects the first user only when no user
\* is selected.
C38_FetchOutcomes ==
  [][LET u == page.users
         v == page'.users
         m == reminder
         n == reminder'
     IN  /\ (\E i \in 1..MaxFetches, ids \in SUBSET (1..MaxUsers),
                outcome \in {"no connection", "error", "throws"} :
               FetchUsersSettles(i, outcome, ids))
              => ~v.loading /\ v.users = u.users /\ v.currentUser = u.currentUser
         /\ (\E i \in 1..MaxFetches, ids \in SUBSET (1..MaxUsers) :
               FetchUsersSettles(i, "ok", ids))
              => /\ ~v.loading
                 /\ v.currentUser # u.currentUser => u.currentUser = 0
         /\ (\E outcome \in {"no user", "error", "throws", "ok"}, ids \in SUBSET (1..MaxMeds) :
               FetchMedications(outcome, ids))
              => ~n.loading
         /\ (\E outcome \in {"error", "throws"}, ids \in SUBSET (1..MaxMeds) :
               FetchMedications(outcome, ids))
              => n.medications = m.medications]_vars

====
